---- MODULE Spec2Model ----
(***************************************************************************)
(* Inventory manager of src/inventory_manager.py: the Product record and   *)
(* its derived predicates, the InventoryManager operations over the        *)
(* product mapping and the transaction log, and the JSON persistence.      *)
(*                                                                         *)
(* Conventions of the model                                                *)
(*   - a Python dict that keeps insertion order is a sequence of           *)
(*     [key, value] entries;                                               *)
(*   - Optional[T] is a sequence: <<>> for None, <<v>> for a value v;      *)
(*   - a datetime is a number of hours since the epoch of the model; its   *)
(*     ISO rendering is a sequence of characters "DDTHH";                  *)
(*   - a str that the code inspects (name, description, query) is a        *)
(*     sequence of one-character strings.                                  *)
(***************************************************************************)
EXTENDS Integers, Sequences, FiniteSets, TLC

VARIABLES
    products,      \* self.products: ordered mapping id -> Product
    transactions,  \* self.transactions: list of transaction dicts
    callerRefs,    \* ids whose stored Product object the caller holds a reference to
    file,          \* content of inventory.json: <<>> (no file) or <<document>>
    now,           \* datetime.now()
    call,          \* what the caller did last: a call with its result, or a write
    steps          \* number of things the caller has done, where that is bounded

vars == <<products, transactions, callerRefs, file, now, call, steps>>

(***************************************************************************)
(* Bounds of the model.                                                    *)
(***************************************************************************)
MaxLog == 4        \* longest transaction log explored with the core operations
MaxSteps == 3      \* calls and writes of the caller when all operations are explored
MaxStock == 2      \* largest stock_quantity reached by update_stock
MaxTicks == 2      \* number of clock advances explored

HoursPerDay == 24
TickHours == 12
DefaultThreshold == 30

None == <<>>
Some(v) == <<v>>

(***************************************************************************)
(* ProductCategory (Enum): members and their values.                       *)
(***************************************************************************)
ProductCategory ==
    { "ORTOMOLECULAR", "DERMOCOSMETICA", "HOMEOPATIA", "ALOPATICA", "FITOTERAPIA",
      "FLORALES", "PROBIOTICOS", "HORMONAS", "MATERIA_PRIMA", "OTROS" }

\* member.value
CategoryValue(c) ==
    CASE c = "ORTOMOLECULAR"  -> "ortomolecular"
      [] c = "DERMOCOSMETICA" -> "dermocosmetica"
      [] c = "HOMEOPATIA"     -> "homeopatia"
      [] c = "ALOPATICA"      -> "alopatica"
      [] c = "FITOTERAPIA"    -> "fitoterapia"
      [] c = "FLORALES"       -> "florales"
      [] c = "PROBIOTICOS"    -> "probioticos"
      [] c = "HORMONAS"       -> "hormonas"
      [] c = "MATERIA_PRIMA"  -> "materia_prima"
      [] c = "OTROS"          -> "otros"

\* ProductCategory(value): the member with that value; None stands for ValueError
CategoryFromValue(tag) ==
    IF \E c \in ProductCategory : CategoryValue(c) = tag
    THEN Some(CHOOSE c \in ProductCategory : CategoryValue(c) = tag)
    ELSE None

(***************************************************************************)
(* datetime.isoformat / datetime.fromisoformat.                            *)
(***************************************************************************)
Digits == <<"0", "1", "2", "3", "4", "5", "6", "7", "8", "9">>

IsDigit(ch) == \E i \in 1..10 : Digits[i] = ch

DigitOf(ch) == (CHOOSE i \in 1..10 : Digits[i] = ch) - 1

Pad2(n) == <<Digits[(n \div 10) + 1], Digits[(n % 10) + 1]>>

\* (mutant) the time of day is lost
isoformat_date_only(t) == Pad2(t \div HoursPerDay) \o <<"T">> \o Pad2(0)

\* datetime.isoformat(): date part, "T", time part
isoformat(t) == Pad2(t \div HoursPerDay) \o <<"T">> \o Pad2(t % HoursPerDay)

\* datetime.fromisoformat(s): None stands for ValueError
fromisoformat(s) ==
    IF /\ Len(s) = 5
       /\ s[3] = "T"
       /\ \A i \in {1, 2, 4, 5} : IsDigit(s[i])
       /\ DigitOf(s[4]) * 10 + DigitOf(s[5]) < HoursPerDay
    THEN Some((DigitOf(s[1]) * 10 + DigitOf(s[2])) * HoursPerDay
              + DigitOf(s[4]) * 10 + DigitOf(s[5]))
    ELSE None

(***************************************************************************)
(* dict operations on an insertion-ordered mapping.                        *)
(***************************************************************************)
Keys(m) == { m[i].key : i \in DOMAIN m }

Has(m, k) == k \in Keys(m)

Get(m, k) == m[CHOOSE i \in DOMAIN m : m[i].key = k].value

Values(m) == [i \in DOMAIN m |-> m[i].value]

\* m[k] = v: a present key keeps its place, a new key goes last
DictSet(m, k, v) ==
    IF Has(m, k)
    THEN [i \in DOMAIN m |-> IF m[i].key = k THEN [key |-> k, value |-> v] ELSE m[i]]
    ELSE Append(m, [key |-> k, value |-> v])

\* del m[k]
DictDel(m, k) == SelectSeq(m, LAMBDA e : e.key # k)

(***************************************************************************)
(* Product and its derived predicates.                                     *)
(***************************************************************************)
Product(id, name, category, description, stock_quantity, min_stock, unit_price, expiration_date, batch_number, supplier, storage_location) ==
    [ id |-> id, name |-> name, category |-> category, description |-> description,
      stock_quantity |-> stock_quantity, min_stock |-> min_stock,
      unit_price |-> unit_price, expiration_date |-> expiration_date,
      batch_number |-> batch_number, supplier |-> supplier,
      storage_location |-> storage_location ]

is_low_stock(p) == p.stock_quantity <= p.min_stock

is_expired(p, t) ==
    IF p.expiration_date = None THEN FALSE
    ELSE t > p.expiration_date[1]

\* timedelta.days of (expiration_date - now): the floor of the difference in days
days_until_expiration(p, t) ==
    IF p.expiration_date = None THEN None
    ELSE Some((p.expiration_date[1] - t) \div HoursPerDay)

is_near_expiration(p, days_threshold, t) ==
    LET days == days_until_expiration(p, t)
    IN  IF days = None THEN FALSE
        ELSE 0 < days[1] /\ days[1] <= days_threshold

\* Product.to_dict: category as its value, expiration_date as its ISO string
to_dict(p) ==
    LET data == p
        data1 == [data EXCEPT !.category = CategoryValue(p.category)]
    IN  IF p.expiration_date # None
        THEN [data1 EXCEPT !.expiration_date = Some(isoformat(p.expiration_date[1]))]
        ELSE data1

(***************************************************************************)
(* Inputs.                                                                 *)
(***************************************************************************)
Ids == {"PROD001", "PROD002"}

StockInputs == {-1, MaxStock}

\* the products of example_usage, with the stock drawn from StockInputs
Catalogue(stock) ==
    { Product("PROD001", <<"V", "i", "t">>, "ORTOMOLECULAR", <<"A", "c">>, stock, 1, 2500,
              Some(36), Some("VC2024-001"), Some("Laboratorio XYZ"), Some("Estante A-1")),
      Product("PROD002", <<"C", "r">>, "DERMOCOSMETICA", <<"a", "c">>, stock, 1, 3500,
              Some(12), Some("CH2024-002"), Some("Materia Prima ABC"), Some("Refrigerador B")),
      Product("PROD002", <<"A", "r">>, "HOMEOPATIA", <<"G", "l">>, stock, 1, 1800,
              None, Some("AM2024-003"), None, None) }

\* products passed to add_product by the core operations: one per id
ProductInputs ==
    { p \in UNION { Catalogue(s) : s \in StockInputs } : p.category # "DERMOCOSMETICA" }

Deltas == {-MaxStock, -1, 0, 1}

Reasons == {"", "Venta"}

\* documents made outside of the program: a first product that loads, then a second
\* one that is fine ("backup.json") or malformed
ExternalSecond(filename) ==
    LET good == to_dict(CHOOSE p \in Catalogue(1) : p.category = "DERMOCOSMETICA")
    IN  CASE filename = "bad_category.json" ->
                 [good EXCEPT !.category = "desconocida"]
          [] filename = "bad_timestamp.json" ->
                 [good EXCEPT !.expiration_date = Some(<<"1", "2", "/", "0", "1">>)]
          [] filename = "bad_schema.json" ->
                 [k \in DOMAIN good \ {"name"} |-> good[k]]
          [] OTHER -> good

ExternalDocument(filename) ==
    [ products |-> << to_dict(CHOOSE p \in Catalogue(1) : p.id = "PROD001"),
                      ExternalSecond(filename) >>,
      transactions |-> <<>> ]

Filenames ==
    { "inventory.json", "missing.json", "garbage.json", "backup.json",
      "bad_category.json", "bad_timestamp.json", "bad_schema.json" }

(***************************************************************************)
(* What the caller did last: a call to the manager with its arguments and  *)
(* its return value (ret: the boolean returned, TRUE for a call that       *)
(* returns something else; result: the products or figures returned), or a *)
(* write to an attribute of a Product object it holds ("setattr").         *)
(***************************************************************************)
Call(name, args, ret, result) ==
    [ name |-> name, args |-> args, ret |-> ret, result |-> result ]

NoCall == Call("__init__", [none |-> TRUE], TRUE, <<>>)

(***************************************************************************)
(* InventoryManager.                                                       *)
(***************************************************************************)
\* (mutant) the record is inserted at the head of the log
log_transaction_at_head(log, action, product_id, quantity, reason) ==
    << [ timestamp |-> isoformat(now), action |-> action,
         product_id |-> product_id, quantity |-> quantity,
         reason |-> reason ] >> \o log

\* _log_transaction: the log with one record appended
log_transaction(log, action, product_id, quantity, reason) ==
    Append(log, [ timestamp |-> isoformat(now), action |-> action,
                  product_id |-> product_id, quantity |-> quantity,
                  reason |-> reason ])

\* (mutant) the duplicate check never fires
already_exists_never(product) == FALSE

\* the guard of add_product
already_exists(product) == Has(products, product.id)

add_product(product) ==
    /\ IF already_exists(product)
       THEN /\ UNCHANGED <<products, transactions, callerRefs>>
            /\ call' = Call("add_product", [product |-> product], FALSE, <<>>)
       ELSE /\ products' = DictSet(products, product.id, product)
            /\ transactions' = log_transaction(transactions, "ADD", product.id,
                                               product.stock_quantity, "")
            /\ callerRefs' = callerRefs \cup {product.id}
            /\ call' = Call("add_product", [product |-> product], TRUE, <<>>)
    /\ UNCHANGED <<file, now>>

\* (mutant) the removal is not logged
remove_product_unlogged(product_id) ==
    /\ IF ~Has(products, product_id)
       THEN /\ UNCHANGED <<products, transactions, callerRefs>>
            /\ call' = Call("remove_product", [product_id |-> product_id], FALSE, <<>>)
       ELSE /\ products' = DictDel(products, product_id)
            /\ UNCHANGED transactions
            /\ callerRefs' = callerRefs \ {product_id}
            /\ call' = Call("remove_product", [product_id |-> product_id], TRUE, <<>>)
    /\ UNCHANGED <<file, now>>

remove_product(product_id) ==
    /\ IF ~Has(products, product_id)
       THEN /\ UNCHANGED <<products, transactions, callerRefs>>
            /\ call' = Call("remove_product", [product_id |-> product_id], FALSE, <<>>)
       ELSE /\ products' = DictDel(products, product_id)
            /\ transactions' = log_transaction(transactions, "REMOVE", product_id, 0, "")
            /\ callerRefs' = callerRefs \ {product_id}
            /\ call' = Call("remove_product", [product_id |-> product_id], TRUE, <<>>)
    /\ UNCHANGED <<file, now>>

\* (mutant) the guard is off by one
insufficient_stock_off_by_one(new_quantity) == new_quantity < -1

\* (mutant) the guard is missing
insufficient_stock_unchecked(new_quantity) == FALSE

\* the guard on the new quantity in update_stock
insufficient_stock(new_quantity) == new_quantity < 0

\* (mutant) the change replaces the quantity instead of adding to it
new_stock_assigned(product, quantity_change) == quantity_change

\* new_quantity of update_stock
new_stock(product, quantity_change) == product.stock_quantity + quantity_change

update_stock(product_id, quantity_change, reason) ==
    LET args == [ product_id |-> product_id, quantity_change |-> quantity_change,
                  reason |-> reason ]
    IN
    /\ IF ~Has(products, product_id)
       THEN /\ UNCHANGED <<products, transactions>>
            /\ call' = Call("update_stock", args, FALSE, <<>>)
       ELSE LET product == Get(products, product_id)
                new_quantity == new_stock(product, quantity_change)
            IN  IF insufficient_stock(new_quantity)
                THEN /\ UNCHANGED <<products, transactions>>
                     /\ call' = Call("update_stock", args, FALSE, <<>>)
                ELSE /\ products' = DictSet(products, product_id,
                                       [product EXCEPT !.stock_quantity = new_quantity])
                     /\ transactions' = log_transaction(transactions, "UPDATE", product_id,
                                                        quantity_change, reason)
                     /\ call' = Call("update_stock", args, TRUE, <<>>)
    /\ UNCHANGED <<callerRefs, file, now>>

\* what update_stock will do with these arguments in the current state
update_accepted(product_id, quantity_change) ==
    /\ Has(products, product_id)
    /\ ~insufficient_stock(new_stock(Get(products, product_id), quantity_change))

(***************************************************************************)
(* Queries.  Each returns the stored Product objects themselves: the       *)
(* caller now holds a reference to every product returned.                 *)
(***************************************************************************)
get_product(product_id) ==
    /\ call' = Call("get_product", [product_id |-> product_id], TRUE,
                    IF Has(products, product_id) THEN Some(Get(products, product_id))
                    ELSE None)
    /\ callerRefs' = callerRefs \cup (Keys(products) \cap {product_id})
    /\ UNCHANGED <<products, transactions, file, now>>

\* str.lower() on one character of the alphabet of the model
LowerChar(ch) ==
    CASE ch = "V" -> "v" [] ch = "C" -> "c" [] ch = "A" -> "a"
      [] ch = "G" -> "g" [] ch = "R" -> "r"
      [] OTHER -> ch

lower(str) == [i \in DOMAIN str |-> LowerChar(str[i])]

\* the Python test `sub in str`
Contains(sub, str) ==
    \E i \in 0..(Len(str) - Len(sub)) : SubSeq(str, i + 1, i + Len(sub)) = sub

\* self.products.values(), which the list comprehensions of the queries filter
StoredProducts == Values(products)

Returned(list) == { list[i].id : i \in DOMAIN list }

search_match(query, product) ==
    \/ Contains(lower(query), lower(product.name))
    \/ Contains(lower(query), lower(product.description))

search_products(query) ==
    LET results == SelectSeq(StoredProducts, LAMBDA product : search_match(query, product))
    IN  /\ call' = Call("search_products", [query |-> query], TRUE, results)
        /\ callerRefs' = callerRefs \cup Returned(results)
        /\ UNCHANGED <<products, transactions, file, now>>

get_products_by_category(category) ==
    LET results == SelectSeq(StoredProducts, LAMBDA product : product.category = category)
    IN  /\ call' = Call("get_products_by_category", [category |-> category], TRUE, results)
        /\ callerRefs' = callerRefs \cup Returned(results)
        /\ UNCHANGED <<products, transactions, file, now>>

get_low_stock_products ==
    LET results == SelectSeq(StoredProducts, is_low_stock)
    IN  /\ call' = Call("get_low_stock_products", [none |-> TRUE], TRUE, results)
        /\ callerRefs' = callerRefs \cup Returned(results)
        /\ UNCHANGED <<products, transactions, file, now>>

get_expired_products ==
    LET results == SelectSeq(StoredProducts, LAMBDA product : is_expired(product, now))
    IN  /\ call' = Call("get_expired_products", [none |-> TRUE], TRUE, results)
        /\ callerRefs' = callerRefs \cup Returned(results)
        /\ UNCHANGED <<products, transactions, file, now>>

get_near_expiration_products(days_threshold) ==
    LET results == SelectSeq(StoredProducts, LAMBDA product : is_near_expiration(product, days_threshold, now))
    IN  /\ call' = Call("get_near_expiration_products",
                        [days_threshold |-> days_threshold], TRUE, results)
        /\ callerRefs' = callerRefs \cup Returned(results)
        /\ UNCHANGED <<products, transactions, file, now>>

RECURSIVE SumStock(_)
SumStock(list) ==
    IF list = <<>> THEN 0 ELSE Head(list).stock_quantity + SumStock(Tail(list))

\* the figures generate_stock_report is derived from (the text layout is not modelled)
generate_stock_report ==
    LET figures ==
          [ total_products |-> Len(products),
            total_stock |-> SumStock(Values(products)),
            low_stock |-> Len(SelectSeq(StoredProducts, is_low_stock)),
            expired |-> Len(SelectSeq(StoredProducts, LAMBDA product : is_expired(product, now))),
            near_expiration |->
                Len(SelectSeq(StoredProducts, LAMBDA product :
                             is_near_expiration(product, DefaultThreshold, now))),
            categories |->
                { c \in ProductCategory :
                    Len(SelectSeq(StoredProducts, LAMBDA product : product.category = c)) > 0 } ]
    IN  /\ call' = Call("generate_stock_report", [none |-> TRUE], TRUE, <<figures>>)
        /\ UNCHANGED <<products, transactions, callerRefs, file, now>>

(***************************************************************************)
(* Persistence.  A JSON document is a record with the keys "products" (a   *)
(* sequence of product dicts) and "transactions"; json.dump and json.load  *)
(* carry the values over unchanged.                                        *)
(***************************************************************************)
\* the document save_to_file writes for a manager state
Document(prods, log) ==
    [ products |-> [i \in DOMAIN prods |-> to_dict(prods[i].value)],
      transactions |-> log ]

save_to_file ==
    /\ file' = Some(Document(products, transactions))
    /\ call' = Call("save_to_file", [filename |-> "inventory.json"], TRUE, <<>>)
    /\ UNCHANGED <<products, transactions, callerRefs, now>>

ProductFields ==
    { "id", "name", "category", "description", "stock_quantity", "min_stock",
      "unit_price", "expiration_date", "batch_number", "supplier", "storage_location" }

RequiredFields ==
    { "id", "name", "category", "description", "stock_quantity", "min_stock", "unit_price" }

OptionalOf(product_data, k) == IF k \in DOMAIN product_data THEN product_data[k] ELSE None

\* the body of the loop of load_from_file for one product dict:
\* Some(product), or None when the body raises (KeyError, ValueError, TypeError)
ReconstructProduct(product_data) ==
    IF "category" \notin DOMAIN product_data
    THEN None
    ELSE
    LET category == CategoryFromValue(product_data.category)
        date_str == OptionalOf(product_data, "expiration_date")
        has_date == date_str # None /\ date_str[1] # <<>>
        expiration_date == IF has_date THEN fromisoformat(date_str[1]) ELSE None
    IN  IF category = None THEN None
        ELSE IF has_date /\ expiration_date = None THEN None
        ELSE IF ~(RequiredFields \subseteq DOMAIN product_data
                  /\ DOMAIN product_data \subseteq ProductFields)
        THEN None
        ELSE Some(Product(product_data.id, product_data.name, category[1],
                          product_data.description, product_data.stock_quantity,
                          product_data.min_stock, product_data.unit_price,
                          IF has_date THEN expiration_date ELSE date_str,
                          OptionalOf(product_data, "batch_number"),
                          OptionalOf(product_data, "supplier"),
                          OptionalOf(product_data, "storage_location")))

\* the loop of load_from_file over data['products'], from the mapping built so far:
\* the mapping at the end of the loop, or at the product whose reconstruction raised
RECURSIVE Reconstruct(_, _)
Reconstruct(list, built) ==
    IF list = <<>> THEN [ok |-> TRUE, products |-> built]
    ELSE LET product == ReconstructProduct(Head(list))
         IN  IF product = None THEN [ok |-> FALSE, products |-> built]
             ELSE Reconstruct(Tail(list), DictSet(built, product[1].id, product[1]))

\* the mapping self.products is rebound to before the loop starts
load_start(prods) == <<>>

\* load_from_file on a manager holding (prods, log), given what open/json.load yield:
\* error "FileNotFoundError", "JSONDecodeError" or "" with the parsed document
LoadOutcome(prods, log, read) ==
    IF read.error # ""
    THEN [ret |-> FALSE, products |-> prods, transactions |-> log]
    ELSE LET data == read.data
             list == IF "products" \in DOMAIN data THEN data.products ELSE <<>>
             r == Reconstruct(list, load_start(prods))
         IN  IF r.ok
             THEN [ ret |-> TRUE, products |-> r.products,
                    transactions |-> IF "transactions" \in DOMAIN data
                                     THEN data.transactions ELSE <<>> ]
             ELSE [ret |-> FALSE, products |-> r.products, transactions |-> log]

\* a read of the JSON document `data`
ReadOf(data) == [error |-> "", data |-> data]

ReadError(error) == [error |-> error, data |-> [none |-> TRUE]]

\* what open(filename) and json.load give: inventory.json is the file save_to_file
\* writes; the other files are made outside of the program
Read(filename) ==
    CASE filename = "inventory.json" ->
             IF file = None THEN ReadError("FileNotFoundError") ELSE ReadOf(file[1])
      [] filename = "missing.json"  -> ReadError("FileNotFoundError")
      [] filename = "garbage.json"  -> ReadError("JSONDecodeError")
      [] OTHER -> ReadOf(ExternalDocument(filename))

load_from_file(filename) ==
    LET read == Read(filename)
        out == LoadOutcome(products, transactions, read)
    IN  /\ products' = out.products
        /\ transactions' = out.transactions
        /\ callerRefs' = IF read.error # "" THEN callerRefs ELSE {}
        /\ call' = Call("load_from_file", [filename |-> filename], out.ret, <<>>)
        /\ UNCHANGED <<file, now>>

(***************************************************************************)
(* The caller and the clock.                                               *)
(***************************************************************************)
\* the caller assigns stock_quantity on the Product object it holds for this id:
\* the stored object itself when the manager handed it out or took it in
setattr(product_id, value) ==
    /\ products' = IF product_id \in callerRefs
                   THEN DictSet(products, product_id,
                                [Get(products, product_id) EXCEPT !.stock_quantity = value])
                   ELSE products
    /\ call' = Call("setattr", [product_id |-> product_id, stock_quantity |-> value],
                    TRUE, <<>>)
    /\ UNCHANGED <<transactions, callerRefs, file, now>>

\* time passes between two calls
Tick ==
    /\ now < MaxTicks * TickHours
    /\ now' = now + TickHours
    /\ UNCHANGED <<products, transactions, callerRefs, file, call, steps>>

(***************************************************************************)
(* Specifications.                                                         *)
(***************************************************************************)
Init ==
    /\ products = <<>>
    /\ transactions = <<>>
    /\ callerRefs = {}
    /\ file = None
    /\ now = 0
    /\ call = NoCall
    /\ steps = 0

\* the caller's step is not counted / is counted against MaxSteps
Uncounted == UNCHANGED steps

Counted == steps < MaxSteps /\ steps' = steps + 1

\* add_product, remove_product and update_stock only
NextCore ==
    \/ \E p \in ProductInputs :
          /\ already_exists(p) \/ Len(transactions) < MaxLog
          /\ add_product(p) /\ Uncounted
    \/ \E id \in Ids :
          /\ ~Has(products, id) \/ Len(transactions) < MaxLog
          /\ remove_product(id) /\ Uncounted
    \/ \E id \in Ids, d \in Deltas, r \in Reasons :
          /\ update_accepted(id, d) =>
                /\ Len(transactions) < MaxLog
                /\ Get(products, id).stock_quantity + d <= MaxStock
          /\ update_stock(id, d, r) /\ Uncounted

SpecCore == Init /\ [][NextCore]_vars

\* inputs of the specification that explores every operation
FullInputs == { p \in Catalogue(1) : p.category # "HOMEOPATIA" }

FullDeltas == {-1, 1}

Queries == { <<>>, <<"a", "c">> }

Thresholds == {1, DefaultThreshold}

AssignedStocks == {-1}

Next ==
    \/ \E p \in FullInputs : add_product(p) /\ Counted
    \/ \E id \in Ids : remove_product(id) /\ Counted
    \/ \E id \in Ids, d \in FullDeltas :
          /\ update_accepted(id, d) => Get(products, id).stock_quantity + d <= MaxStock
          /\ update_stock(id, d, "Venta") /\ Counted
    \/ \E id \in Ids : get_product(id) /\ Counted
    \/ \E q \in Queries : search_products(q) /\ Counted
    \/ get_products_by_category("ORTOMOLECULAR") /\ Counted
    \/ get_low_stock_products /\ Counted
    \/ get_expired_products /\ Counted
    \/ \E th \in Thresholds : get_near_expiration_products(th) /\ Counted
    \/ generate_stock_report /\ Counted
    \/ save_to_file /\ Counted
    \/ \E f \in Filenames : load_from_file(f) /\ Counted
    \/ \E id \in Ids, v \in AssignedStocks : setattr(id, v) /\ Counted
    \/ Tick

Spec == Init /\ [][Next]_vars

(***************************************************************************)
(* Properties.                                                             *)
(***************************************************************************)
IsPrefix(s, t) == Len(s) <= Len(t) /\ SubSeq(t, 1, Len(s)) = s

Last(s) == s[Len(s)]

KeyOrder(m) == [i \in DOMAIN m |-> m[i].key]

\* the step is the call `name` (not the clock; in Spec the caller's steps are counted)
Calls(name) == call'.name = name /\ (call' # call \/ steps' # steps \/ products' # products
                                     \/ transactions' # transactions)

\* C1: update_stock(id, delta, reason) returns false and leaves the product mapping
\* and the transaction log as they were when id is absent or stock_quantity + delta
\* < 0; for a present product with stock_quantity = s >= 0, update_stock(id, -s)
\* returns true and leaves its stock_quantity at 0.
C1_UpdateStockGuards ==
    [][ Calls("update_stock") =>
          LET id == call'.args.product_id
              delta == call'.args.quantity_change
          IN  /\ (~Has(products, id) \/ Get(products, id).stock_quantity + delta < 0)
                   => /\ call'.ret = FALSE
                      /\ products' = products
                      /\ transactions' = transactions
              /\ (/\ Has(products, id)
                  /\ Get(products, id).stock_quantity >= 0
                  /\ delta = -Get(products, id).stock_quantity)
                   => /\ call'.ret = TRUE
                      /\ Get(products', id).stock_quantity = 0 ]_vars

\* a rejected update for insufficient stock, and an update that empties the stock
C1_Witness ==
    /\ call.name = "update_stock"
    /\ Has(products, call.args.product_id)
    /\ \/ /\ ~call.ret
          /\ Get(products, call.args.product_id).stock_quantity
               + call.args.quantity_change < 0
       \/ /\ call.ret
          /\ call.args.quantity_change < 0
          /\ Get(products, call.args.product_id).stock_quantity = 0

AddedNonNegative ==
    \A i \in DOMAIN transactions :
        transactions[i].action = "ADD" => transactions[i].quantity >= 0

\* C2: from an empty manager, after any sequence of add_product, remove_product and
\* update_stock calls in which every product added had stock_quantity >= 0 (the ADD
\* records hold the stock each product was added with), every product in the mapping
\* has stock_quantity >= 0; and after every update_stock that returns true the
\* target's stock_quantity is >= 0 whatever it was before.
C2_NonNegativeStock ==
    /\ [](AddedNonNegative =>
            \A i \in DOMAIN products : products[i].value.stock_quantity >= 0)
    /\ [][ (Calls("update_stock") /\ call'.ret)
             => Get(products', call'.args.product_id).stock_quantity >= 0 ]_vars

\* a product added with a negative stock, brought back to >= 0 by a successful update
C2_Witness ==
    /\ call.name = "update_stock" /\ call.ret
    /\ \E i \in DOMAIN transactions :
          /\ transactions[i].action = "ADD"
          /\ transactions[i].product_id = call.args.product_id
          /\ transactions[i].quantity < 0
    /\ Has(products, call.args.product_id)
    /\ Get(products, call.args.product_id).stock_quantity >= 0

\* C3: add_product(product) with product.id present returns false and leaves the
\* mapping (the stored product keeps all its fields) and the log unchanged; with
\* product.id absent it returns true, inserts the product under product.id and
\* appends exactly one ADD transaction whose quantity is the product's stock.
C3_AddProduct ==
    [][ Calls("add_product") =>
          LET product == call'.args.product
          IN  IF Has(products, product.id)
              THEN /\ call'.ret = FALSE
                   /\ products' = products
                   /\ transactions' = transactions
              ELSE /\ call'.ret = TRUE
                   /\ products' = Append(products, [key |-> product.id, value |-> product])
                   /\ Len(transactions') = Len(transactions) + 1
                   /\ IsPrefix(transactions, transactions')
                   /\ Last(transactions').action = "ADD"
                   /\ Last(transactions').product_id = product.id
                   /\ Last(transactions').quantity = product.stock_quantity ]_vars

\* a rejected duplicate whose fields differ from the stored product's
C3_Witness ==
    /\ call.name = "add_product" /\ ~call.ret
    /\ Has(products, call.args.product.id)
    /\ Get(products, call.args.product.id) # call.args.product
    /\ Len(transactions) >= 2

\* C5: for every state reachable by add_product, remove_product and update_stock,
\* loading the document save_to_file writes into a fresh manager returns true and
\* yields the same ids in the same order with equal values in every field, and an
\* equal transaction sequence.
C5_RoundTrip ==
    LET out == LoadOutcome(<<>>, <<>>, ReadOf(Document(products, transactions)))
    IN  /\ out.ret = TRUE
        /\ out.products = products
        /\ out.transactions = transactions

\* two products, one with and one without an expiration date, after a removal
C5_Witness ==
    /\ Len(products) = 2
    /\ \E i \in DOMAIN products : products[i].value.expiration_date # None
    /\ \E i \in DOMAIN products : products[i].value.expiration_date = None
    /\ \E i \in DOMAIN transactions : transactions[i].action = "REMOVE"

\* C9: a successful update_stock(id, delta, reason) sets the target's stock_quantity
\* to its old value plus delta, appends exactly one UPDATE transaction with
\* product_id = id, quantity = delta and the reason, and changes nothing else in the
\* mapping.
C9_UpdateStockFrame ==
    [][ (Calls("update_stock") /\ call'.ret) =>
          LET id == call'.args.product_id
              delta == call'.args.quantity_change
              old == Get(products, id)
          IN  /\ KeyOrder(products') = KeyOrder(products)
              /\ \A i \in DOMAIN products :
                    products[i].key # id => products'[i] = products[i]
              /\ Get(products', id) =
                    [old EXCEPT !.stock_quantity = old.stock_quantity + delta]
              /\ Len(transactions') = Len(transactions) + 1
              /\ IsPrefix(transactions, transactions')
              /\ Last(transactions').action = "UPDATE"
              /\ Last(transactions').product_id = id
              /\ Last(transactions').quantity = delta
              /\ Last(transactions').reason = call'.args.reason ]_vars

\* a successful update with a reason, beside another product
C9_Witness ==
    /\ call.name = "update_stock" /\ call.ret
    /\ call.args.reason = "Venta"
    /\ call.args.quantity_change > 0
    /\ Get(products, call.args.product_id).stock_quantity > 1
    /\ Len(products) = 2

IsRecord(i, action, id) ==
    transactions[i].action = action /\ transactions[i].product_id = id

\* the place of the most recent ADD record of id
LastAdd(id) ==
    CHOOSE i \in DOMAIN transactions :
        /\ IsRecord(i, "ADD", id)
        /\ \A j \in DOMAIN transactions : IsRecord(j, "ADD", id) => j <= i

RECURSIVE UpdatesSince(_, _)
UpdatesSince(id, i) ==
    IF i > Len(transactions) THEN 0
    ELSE (IF IsRecord(i, "UPDATE", id) THEN transactions[i].quantity ELSE 0)
         + UpdatesSince(id, i + 1)

\* C10: from an empty manager, after any sequence of add_product, remove_product
\* and update_stock calls, (i) the log grows by one record with every call that
\* returns true and by none with a call that returns false, so its length is the
\* number of calls that returned true, (ii) an id is in the mapping iff the log
\* holds an ADD record for it with no later REMOVE record for it, and (iii) the
\* stock_quantity of every id in the mapping is the quantity of its most recent ADD
\* record plus the quantities of the UPDATE records for it after that ADD.
C10_LogReconstructsState ==
    /\ [][ Len(transactions') = Len(transactions) + (IF call'.ret THEN 1 ELSE 0) ]_vars
    /\ [](\A id \in Ids :
            Has(products, id) <=>
              \E i \in DOMAIN transactions :
                  /\ IsRecord(i, "ADD", id)
                  /\ \A j \in DOMAIN transactions : j > i => ~IsRecord(j, "REMOVE", id))
    /\ [](\A id \in Keys(products) :
            Get(products, id).stock_quantity =
                transactions[LastAdd(id)].quantity + UpdatesSince(id, LastAdd(id) + 1))

\* an id added, removed, added again and then updated
C10_Witness ==
    \E id \in Keys(products) :
        /\ Len(transactions) = 4
        /\ IsRecord(1, "ADD", id) /\ IsRecord(2, "REMOVE", id)
        /\ IsRecord(3, "ADD", id) /\ IsRecord(4, "UPDATE", id)
        /\ transactions[1].quantity # transactions[3].quantity
        /\ transactions[4].quantity # 0

\* C4: whenever load_from_file returns false (missing file, or malformed document,
\* an error on the k-th product after earlier ones were reconstructed included), the
\* product mapping and the transaction log are the same as before the call.
C4_FailedLoadLeavesState ==
    [][ (Calls("load_from_file") /\ call'.ret = FALSE)
          => products' = products /\ transactions' = transactions ]_vars

\* C6 as claimed: for every manager operation, load_from_file included, the log
\* before the call is a prefix of the log after the call.
C6_AppendOnly == [][ IsPrefix(transactions, transactions') ]_vars

\* C6 as amended: for every manager operation other than a load_from_file that
\* returns true, the log before the call is a prefix of the log after the call; a
\* load_from_file that returns true replaces the log by the transaction sequence of
\* the document it read.
C6_AppendOnlyExceptLoad ==
    [][ IF Calls("load_from_file") /\ call'.ret
        THEN transactions' = Read(call'.args.filename).data.transactions
        ELSE IsPrefix(transactions, transactions') ]_vars

\* a record appended after an earlier one, and a load that failed in the middle of
\* the reconstruction and kept the log
C6_Witness ==
    \/ /\ call.name \in {"remove_product", "update_stock"} /\ call.ret
       /\ Len(transactions) >= 2
    \/ /\ call.name = "load_from_file" /\ ~call.ret
       /\ call.args.filename = "bad_category.json"
       /\ Len(transactions) >= 2

\* an expiration date strictly later than now and at most `days_threshold` days later
ExpiresWithin(product, days_threshold, t) ==
    /\ product.expiration_date # None
    /\ product.expiration_date[1] > t
    /\ product.expiration_date[1] - t <= days_threshold * HoursPerDay

\* C7: is_near_expiration(threshold) is true exactly when the product has an
\* expiration_date strictly later than now and no more than threshold days later
\* (time measured in hours): get_near_expiration_products returns exactly those.
C7_NearExpirationExact ==
    [][ Calls("get_near_expiration_products") =>
          call'.result =
            SelectSeq(Values(products),
                      LAMBDA product :
                          ExpiresWithin(product, call'.args.days_threshold, now)) ]_vars

\* C8: a write by the caller to the Product object it passed to add_product, or to
\* one returned by get_product or a query, does not change the state the manager
\* holds.
C8_NoAliasing ==
    [][ Calls("setattr") => products' = products ]_vars

====
